---- MODULE Spec2Model ----
(***************************************************************************)
(* Model of client-map.py: a Streamlit script whose main() is re-run on    *)
(* every operator interaction of one process.  Two st.cache_data caches    *)
(* (load_data, get_geocode) live for the process; everything else is local *)
(* to one run of main().                                                   *)
(***************************************************************************)
EXTENDS Integers, Sequences, FiniteSets, TLC

\* ---------------------------------------------------------------- bounds
MaxRecs == 2        \* rows of the remote CSV
MaxLookups == 2     \* external geocoding lookups counted per address
MaxFetches == 2     \* successful CSV downloads counted per process

\* ---------------------------------------------------------------- values
Null == "null"                 \* a missing Address / AdministrativeArea2 cell
None == <<>>                   \* None / NaN in a numeric cell
Some(x) == <<x>>
IsNull(v) == v = None

Addresses == {"a1", "a2"}
Regions == {"r1", "r2"}
AddressValues == Addresses \cup {Null}
RegionValues == Regions \cup {Null}
CoordCols == {"lat", "lng"}
CsvLayouts == {{}, CoordCols}  \* the CSV may or may not carry lat/lng columns

\* coordinates a CSV row carries at row position i, when it carries any
CsvLat(i) == 40 + i
CsvLng(i) == 2 * i

\* coordinates the geocoding service answers for a query it can match
GeoLat(q) == CASE q = "a1" -> 10 [] q = "a2" -> 30 [] OTHER -> 50
GeoLng(q) == CASE q = "a1" -> 20 [] q = "a2" -> 60 [] OTHER -> 70

\* what one call of geocoder.geocode(query) can do; the service is opaque, so
\* every outcome is possible for every query, a missing address included
Outcomes == {"match", "nomatch", "error", "malformed"}

NotFound == <<None, None>>

\* which coordinate cells of a CSV row are filled
CellFills == {"none", "both"}

Row(i, a, r, fill) ==
    [idx |-> i, Address |-> a, Region |-> r,
     lat |-> IF fill = "both" THEN Some(CsvLat(i)) ELSE None,
     lng |-> IF fill = "both" THEN Some(CsvLng(i)) ELSE None]

DatasetsOf(cols, n) ==
    { [cols |-> cols,
       rows |-> [i \in 1..n |-> Row(i, f[i][1], f[i][2], f[i][3])]] :
      f \in [1..n -> AddressValues \X RegionValues \X
                     (IF cols = {} THEN {"none"} ELSE CellFills)] }

\* the contents the remote CSV can have when it is downloaded
Datasets == UNION { DatasetsOf(cols, n) : cols \in CsvLayouts, n \in 0..MaxRecs }

EmptyFrame == [cols |-> {}, rows |-> <<>>]

\* ------------------------------------------------------ pandas operations
RowSet(frame) == { frame.rows[i] : i \in 1..Len(frame.rows) }

\* sorted(data['AdministrativeArea2'].dropna().unique().tolist())
Departments(frame) == { r.Region : r \in RowSet(frame) } \ {Null}

\* a filter that lets rows without a region through
InSelectionOrNoRegion(r, selected) == r.Region \in selected \/ r.Region = Null

InSelection(r, selected) == r.Region \in selected

\* geocoding the loaded rows without filtering them first
IsInSkipped(frame, selected) == frame

\* data[data['AdministrativeArea2'].isin(selected)]  (a copy, index kept)
IsIn(frame, selected) ==
    [cols |-> frame.cols,
     rows |-> SelectSeq(frame.rows, LAMBDA r : InSelection(r, selected))]

NeedsCoordColumns(frame) == "lat" \notin frame.cols \/ "lng" \notin frame.cols

\* if 'lat' not in columns or 'lng' not in columns: lat, lng = None, None
EnsureCoordColumns(frame) ==
    IF NeedsCoordColumns(frame)
    THEN [cols |-> frame.cols \cup CoordCols,
          rows |-> [i \in 1..Len(frame.rows) |->
                      [frame.rows[i] EXCEPT !.lat = None, !.lng = None]]]
    ELSE frame

IsMissing(r) == IsNull(r.lat) \/ IsNull(r.lng)

\* filtered_data[filtered_data[['lat', 'lng']].isnull().any(axis=1)]
MissingCoords(frame) == SelectSeq(frame.rows, IsMissing)

HasCoords(r) == ~IsNull(r.lat) /\ ~IsNull(r.lng)

\* filtered_data.dropna(subset=['lat', 'lng'])
DropNa(frame) == [cols |-> frame.cols, rows |-> SelectSeq(frame.rows, HasCoords)]

RECURSIVE SumOf(_, _)
SumOf(rows, col) ==
    IF rows = <<>> THEN 0
    ELSE (IF col = "lat" THEN Head(rows).lat[1] ELSE Head(rows).lng[1])
         + SumOf(Tail(rows), col)

\* Series.mean(): the exact mean as the fraction <<sum, count>>; NaN when empty
Mean(rows, col) ==
    IF rows = <<>> THEN None ELSE Some(<<SumOf(rows, col), Len(rows)>>)


\* ------------------------------------------------------------ get_geocode
\* st.cache_data: a call whose arguments were seen before is served from
\* the cache
CacheHit(cache, query) == cache[query] # None

\* a cache that keeps only the addresses that resolved
CacheStoreFoundOnly(cache, query, result) ==
    IF result = NotFound THEN cache ELSE [cache EXCEPT ![query] = Some(result)]

\* st.cache_data stores whatever the function returned
CacheStore(cache, query, result) == [cache EXCEPT ![query] = Some(result)]

\* the body of get_geocode for what geocoder.geocode(query) did
GeocoderResult(query, outcome) ==
    CASE outcome = "match" -> <<Some(GeoLat(query)), Some(GeoLng(query))>>
      [] outcome = "nomatch" -> NotFound     \* empty result list
      [] outcome = "error" -> NotFound       \* geocode raised: except branch
      [] outcome = "malformed" -> NotFound   \* result[0] lacks geometry: except

\* one call get_geocode(query); g is the geocoder's state in the process:
\* cache, lookups (external lookups per query), returned (results handed
\* out per query), calls and hits (queries of this run)
GetGeocode(g, query, oracle) ==
    IF CacheHit(g.cache, query)
    THEN [g |-> [g EXCEPT !.returned[query] = @ \cup {g.cache[query][1]},
                          !.calls = @ \cup {query},
                          !.hits = @ \cup {query}],
          result |-> g.cache[query][1]]
    ELSE LET result == GeocoderResult(query, oracle[query])
         IN [g |-> [g EXCEPT !.cache = CacheStore(@, query, result),
                             !.lookups[query] = @ + 1,
                             !.returned[query] = @ \cup {result},
                             !.calls = @ \cup {query}],
             result |-> result]

\* pd.Series(get_geocode(x)): a Series labelled 0, 1
SeriesOf(result) == ("0" :> result[1]) @@ ("1" :> result[2])

\* an explicit pre-filter of the rows without an address
ToGeocodeWithAddress(frame) ==
    SelectSeq(MissingCoords(frame), LAMBDA r : r.Address # Null)

\* the rows handed to .apply: missing_coords['Address']
ToGeocode(frame) == MissingCoords(frame)

\* missing_coords['Address'].apply(lambda x: pd.Series(get_geocode(x))),
\* row by row in input order; out is the resulting DataFrame (columns 0, 1)
RECURSIVE ApplyGeocode(_, _, _)
ApplyGeocode(rows, g, oracle) ==
    IF rows = <<>> THEN [g |-> g, out |-> <<>>]
    ELSE LET call == GetGeocode(g, Head(rows).Address, oracle)
             rest == ApplyGeocode(Tail(rows), call.g, oracle)
         IN [g |-> rest.g,
             out |-> <<[idx |-> Head(rows).idx, series |-> SeriesOf(call.result)]>>
                     \o rest.out]

\* .loc[...] = DataFrame aligns the value on the target's column labels:
\* a target column the value does not have is filled with NaN
AlignedCell(series, col) == IF col \in DOMAIN series THEN series[col] ELSE None

ValueIndex(value) == { value[i].idx : i \in 1..Len(value) }
ValueAt(value, idx) ==
    (CHOOSE i \in 1..Len(value) : value[i].idx = idx)

\* filtered_data.loc[missing_coords.index, ['lat', 'lng']] = value
LocAssign(frame, value) ==
    [cols |-> frame.cols,
     rows |-> [i \in 1..Len(frame.rows) |->
                LET r == frame.rows[i]
                IN IF r.idx \in ValueIndex(value)
                   THEN [r EXCEPT
                           !.lat = AlignedCell(value[ValueAt(value, r.idx)].series, "lat"),
                           !.lng = AlignedCell(value[ValueAt(value, r.idx)].series, "lng")]
                   ELSE r]]

\* ------------------------------------------------------------------ state
VARIABLES
    data_cache,        \* st.cache_data of load_data: None or Some(dataset)
    geocode_cache,     \* st.cache_data of get_geocode: query -> None or Some(result)
    csvFetches,        \* successful downloads of the CSV in this process
    firstSnapshot,     \* what the first successful load_data returned
    lookups,           \* external geocoding lookups per query in this process
    returned,          \* results get_geocode has handed out per query
    pc,                \* position of the current run of main()
    data,              \* main: data
    loadedFromCache,   \* this run's load_data was a cache hit
    selected_departments,
    filtered_data,     \* main: filtered_data
    before_dropna,     \* filtered_data as it was just before line 97
    runCalls,          \* queries passed to get_geocode in this run
    runHits,           \* of these, the ones served from the cache
    boundaryFetched,   \* this run issued the GeoJSON request
    centroidComputed,  \* this run evaluated the two .mean() calls
    folium_map,        \* None or Some([location, markers])
    table,             \* None or Some(rows shown by st.dataframe)
    notice,            \* the st.info / st.warning that ended the run
    exception          \* the exception that left main(), if any

vars == <<data_cache, geocode_cache, csvFetches, firstSnapshot, lookups, returned,
          pc, data, loadedFromCache, selected_departments, filtered_data,
          before_dropna, runCalls, runHits, boundaryFetched, centroidComputed,
          folium_map, table, notice, exception>>

process == <<data_cache, geocode_cache, csvFetches, firstSnapshot, lookups, returned>>
run == <<pc, data, loadedFromCache, selected_departments, filtered_data,
         before_dropna, runCalls, runHits, boundaryFetched, centroidComputed,
         folium_map, table, notice, exception>>

RunStart ==
    /\ pc = "load"
    /\ data = EmptyFrame
    /\ loadedFromCache = FALSE
    /\ selected_departments = {}
    /\ filtered_data = EmptyFrame
    /\ before_dropna = EmptyFrame
    /\ runCalls = {}
    /\ runHits = {}
    /\ boundaryFetched = FALSE
    /\ centroidComputed = FALSE
    /\ folium_map = None
    /\ table = None
    /\ notice = "none"
    /\ exception = "none"

Init ==
    /\ data_cache = None
    /\ geocode_cache = [q \in AddressValues |-> None]
    /\ csvFetches = 0
    /\ firstSnapshot = None
    /\ lookups = [q \in AddressValues |-> 0]
    /\ returned = [q \in AddressValues |-> {}]
    /\ RunStart


\* ---------------------------------------------------------------- load_data
\* load_data without its st.cache_data decorator
LoadDataNeverHit(cache) == FALSE

\* st.cache_data on load_data(): served from the cache once a call returned
LoadDataHit(cache) == cache # None

\* data = load_data()   (line 52; lines 15-20)
LoadData ==
    /\ pc = "load"
    /\ \/ /\ LoadDataHit(data_cache)
          /\ data' = data_cache[1]
          /\ loadedFromCache' = TRUE
          /\ pc' = "select"
          /\ UNCHANGED <<data_cache, csvFetches, firstSnapshot, notice, exception>>
       \/ /\ ~LoadDataHit(data_cache)
          /\ csvFetches < MaxFetches
          /\ \E d \in Datasets :
               /\ data_cache' = Some(d)
               /\ data' = d
               /\ firstSnapshot' = IF firstSnapshot = None THEN Some(d) ELSE firstSnapshot
          /\ csvFetches' = csvFetches + 1
          /\ pc' = "select"
          /\ UNCHANGED <<loadedFromCache, notice, exception>>
       \/ \* pd.read_csv raises: nothing is cached, the exception leaves main()
          /\ ~LoadDataHit(data_cache)
          /\ exception' = "load_data"
          /\ pc' = "done"
          /\ UNCHANGED <<data_cache, csvFetches, firstSnapshot, data, loadedFromCache,
                         notice>>
    /\ UNCHANGED <<geocode_cache, lookups, returned, selected_departments,
                   filtered_data, before_dropna, runCalls, runHits, boundaryFetched,
                   centroidComputed, folium_map, table>>

\* ------------------------------------------------------- select and filter
\* main without the early return on an empty selection
NoSelectionIgnored(selected) == FALSE

\* if not selected_departments
NoSelection(selected) == selected = {}

\* lines 60-86: the multiselect, the prompt, the filter, the empty notice,
\* the lat/lng columns
SelectAndFilter ==
    /\ pc = "select"
    /\ \E selected \in SUBSET Departments(data) :
         /\ selected_departments' = selected
         /\ IF NoSelection(selected)
            THEN /\ notice' = "select_prompt"
                 /\ pc' = "done"
                 /\ UNCHANGED filtered_data
            ELSE IF IsIn(data, selected).rows = <<>>
            THEN /\ notice' = "filter_empty"
                 /\ pc' = "done"
                 /\ filtered_data' = IsIn(data, selected)
            ELSE /\ filtered_data' = EnsureCoordColumns(IsIn(data, selected))
                 /\ pc' = "geocode"
                 /\ UNCHANGED notice
    /\ UNCHANGED <<process, data, loadedFromCache, before_dropna, runCalls, runHits,
                   boundaryFetched, centroidComputed, folium_map, table, exception>>

\* ------------------------------------------------------------------ geocode
\* main without the check of line 99
NothingResolvedIgnored(frame) == FALSE

\* if filtered_data.empty  (line 99)
NothingResolved(frame) == frame.rows = <<>>

\* lines 88-101: geocode the rows without coordinates, assign, dropna
Geocode ==
    /\ pc = "geocode"
    /\ \A q \in AddressValues : lookups[q] < MaxLookups
    /\ LET rows == ToGeocode(filtered_data)
           g0 == [cache |-> geocode_cache, lookups |-> lookups,
                  returned |-> returned, calls |-> {}, hits |-> {}]
       IN \E oracle \in [{ rows[i].Address : i \in 1..Len(rows) } -> Outcomes] :
            LET applied == ApplyGeocode(rows, g0, oracle)
                assigned == IF rows # <<>>
                            THEN LocAssign(filtered_data, applied.out)
                            ELSE filtered_data
            IN /\ geocode_cache' = applied.g.cache
               /\ lookups' = applied.g.lookups
               /\ returned' = applied.g.returned
               /\ runCalls' = applied.g.calls
               /\ runHits' = applied.g.hits
               /\ before_dropna' = assigned
               /\ filtered_data' = DropNa(assigned)
               /\ IF NothingResolved(DropNa(assigned))
                  THEN /\ notice' = "geocode_empty"
                       /\ pc' = "done"
                  ELSE /\ pc' = "boundaries"
                       /\ UNCHANGED notice
    /\ UNCHANGED <<data_cache, csvFetches, firstSnapshot, data, loadedFromCache,
                   selected_departments, boundaryFetched, centroidComputed,
                   folium_map, table, exception>>

\* ------------------------------------------------------------------- render
\* departements_geojson = requests.get(geojson_url).json()   (line 109)
FetchBoundaries ==
    /\ pc = "boundaries"
    /\ boundaryFetched' = TRUE
    /\ \/ /\ pc' = "build"
          /\ UNCHANGED exception
       \/ \* the request or the JSON decoding raises: it leaves main()
          /\ exception' = "geojson"
          /\ pc' = "done"
    /\ UNCHANGED <<process, data, loadedFromCache, selected_departments,
                   filtered_data, before_dropna, runCalls, runHits,
                   centroidComputed, folium_map, table, notice>>

\* the centre with latitude and longitude swapped
CentreSwapped(frame) == <<Mean(frame.rows, "lng"), Mean(frame.rows, "lat")>>

\* [average_lat, average_lon]   (lines 112-113)
Centre(frame) == <<Mean(frame.rows, "lat"), Mean(frame.rows, "lng")>>

\* for _, row in filtered_data.iterrows(): folium.Marker(...)  (lines 129-139)
Markers(frame) ==
    [i \in 1..Len(frame.rows) |->
       [location |-> <<frame.rows[i].lat, frame.rows[i].lng>>,
        idx |-> frame.rows[i].idx,
        Address |-> frame.rows[i].Address,
        Region |-> frame.rows[i].Region]]

\* st.dataframe(filtered_data[[...]])   (line 165)
Table(frame) == frame.rows

\* lines 112-165: centre, map, markers, download, table
BuildAndPresent ==
    /\ pc = "build"
    /\ centroidComputed' = TRUE
    /\ folium_map' = Some([location |-> Centre(filtered_data),
                           markers |-> Markers(filtered_data)])
    /\ table' = Some(Table(filtered_data))
    /\ notice' = "rendered"
    /\ pc' = "done"
    /\ UNCHANGED <<process, data, loadedFromCache, selected_departments,
                   filtered_data, before_dropna, runCalls, runHits,
                   boundaryFetched, exception>>

\* the next operator interaction re-runs main() in the same process
Rerun ==
    /\ pc = "done"
    /\ pc' = "load"
    /\ data' = EmptyFrame
    /\ loadedFromCache' = FALSE
    /\ selected_departments' = {}
    /\ filtered_data' = EmptyFrame
    /\ before_dropna' = EmptyFrame
    /\ runCalls' = {}
    /\ runHits' = {}
    /\ boundaryFetched' = FALSE
    /\ centroidComputed' = FALSE
    /\ folium_map' = None
    /\ table' = None
    /\ notice' = "none"
    /\ exception' = "none"
    /\ UNCHANGED process

Next ==
    \/ LoadData
    \/ SelectAndFilter
    \/ Geocode
    \/ FetchBoundaries
    \/ BuildAndPresent
    \/ Rerun

Spec == Init /\ [][Next]_vars


\* ------------------------------------------------------------------ claims
\* filtered_data as the geocoding step of this run received it
PreGeocode == EnsureCoordColumns(IsIn(data, selected_departments))
\* this run has executed lines 88-101
Geocoded == before_dropna.rows # <<>>
\* the rows of this run that had coordinates after line 94
ResolvedRows == SelectSeq(before_dropna.rows, HasCoords)
Resolved(result) == result # NotFound
IdxOf(rows) == { rows[i].idx : i \in 1..Len(rows) }

\* C1: in one process get_geocode issues at most one external lookup per
\* distinct address, and every call with one address returns one and the same
\* result, a "not found" included.
C1_OneLookupPerAddress ==
    \A q \in Addresses :
        /\ lookups[q] <= 1
        /\ Cardinality(returned[q]) <= 1
        /\ (geocode_cache[q] # None => returned[q] = {geocode_cache[q][1]})

\* a later run was served a cached "not found" for an address looked up once
C1_Witness ==
    \E q \in Addresses :
        /\ q \in runHits
        /\ lookups[q] = 1
        /\ returned[q] = {NotFound}
        /\ loadedFromCache

\* C2: no exception leaves a run of main().
C2_NoUncaughtException == exception = "none"

\* C3: with no record holding coordinates the centroid is never computed and
\* no map is built; the run ends in the notice of line 100.
C3_NoCentroidOfNothing ==
    /\ (centroidComputed \/ folium_map # None) =>
          /\ filtered_data.rows # <<>>
          /\ \A i \in 1..Len(filtered_data.rows) : HasCoords(filtered_data.rows[i])
    /\ (Geocoded /\ ResolvedRows = <<>>) =>
          /\ pc = "done"
          /\ notice = "geocode_empty"
          /\ ~centroidComputed
          /\ folium_map = None
          /\ table = None

\* a run whose geocoding step left no record with coordinates
C3_Witness ==
    /\ Geocoded
    /\ ResolvedRows = <<>>
    /\ runCalls # {}
    /\ notice = "geocode_empty"

\* C4: a run in which the operator selected no region ends with the prompt of
\* line 71 and renders neither map nor table, whatever was loaded.
C4_PromptOnNoSelection ==
    (pc \notin {"load", "select"} /\ exception # "load_data"
        /\ selected_departments = {}) =>
       /\ pc = "done"
       /\ notice = "select_prompt"
       /\ folium_map = None
       /\ table = None

\* the prompt, with two records loaded
C4_Witness ==
    /\ notice = "select_prompt"
    /\ Len(data.rows) >= 2
    /\ Departments(data) # {}

\* C5: the filter's output is exactly the loaded records whose region is one
\* of the selected labels.
C5_FilterExact ==
    pc = "geocode" =>
       /\ IdxOf(filtered_data.rows) =
             { i \in 1..Len(data.rows) : data.rows[i].Region \in selected_departments }
       /\ Len(filtered_data.rows) = Cardinality(IdxOf(filtered_data.rows))
       /\ \A i \in 1..Len(filtered_data.rows) :
             LET r == filtered_data.rows[i]
             IN /\ r.Region \in selected_departments
                /\ r.Region = data.rows[r.idx].Region
                /\ r.Address = data.rows[r.idx].Address

\* a filter that kept one record and left out another, one of them region-less
C5_Witness ==
    /\ pc = "geocode"
    /\ Len(filtered_data.rows) = 1
    /\ Len(data.rows) = 2
    /\ \E i \in 1..2 : data.rows[i].Region = Null

\* C6: a record whose lookup failed is dropped, and every record whose
\* address resolved is kept in the final record set.
C6_ResolvedRecordsKept ==
    (pc = "done" /\ Geocoded) =>
       \A i \in 1..Len(PreGeocode.rows) :
          LET r == PreGeocode.rows[i]
          IN (IsMissing(r) /\ geocode_cache[r.Address] # None
                /\ Resolved(geocode_cache[r.Address][1]))
             => r.idx \in IdxOf(filtered_data.rows)

\* C7 as stated: get_geocode is never invoked for a missing address.
C7_NoGeocodeOfMissingAddress == Null \notin runCalls

\* C7 as amended: there is no pre-filter; a filtered record without address
\* and without coordinates is passed to get_geocode and is left out of the
\* final record set, the markers and the table.
C7_MissingAddressGeocodedThenDropped ==
    Geocoded =>
       \A i \in 1..Len(PreGeocode.rows) :
          LET r == PreGeocode.rows[i]
          IN (r.Address = Null /\ IsMissing(r)) =>
                /\ Null \in runCalls
                /\ returned[Null] # {}
                /\ r.idx \notin IdxOf(filtered_data.rows)
                /\ folium_map # None =>
                      r.idx \notin IdxOf(folium_map[1].markers)
                /\ table # None => r.idx \notin IdxOf(table[1])

\* a map was rendered in a run that geocoded a record without address
C7_Witness ==
    /\ notice = "rendered"
    /\ Null \in runCalls
    /\ \E i \in 1..Len(PreGeocode.rows) :
          PreGeocode.rows[i].Address = Null /\ IsMissing(PreGeocode.rows[i])

\* C8: after the first successful load_data every later call returns that
\* snapshot without another download, and no run alters the snapshot.
C8_OneSnapshot ==
    /\ csvFetches <= 1
    /\ data_cache # None => data_cache = firstSnapshot
    /\ (pc # "load" /\ exception # "load_data") => Some(data) = firstSnapshot

\* a later run, served from the cache, after an earlier run had geocoded
C8_Witness ==
    /\ loadedFromCache
    /\ runHits # {}
    /\ Geocoded
    /\ Some(data) = firstSnapshot
    /\ csvFetches = 1

C10_GeocodeAfterFilter ==
    /\ runCalls \subseteq
          { data.rows[i].Address :
              i \in { j \in 1..Len(data.rows) :
                        data.rows[j].Region \in selected_departments } }
    /\ pc \in {"load", "select"} => (runCalls = {} /\ ~boundaryFetched)
    /\ notice \in {"select_prompt", "filter_empty"} =>
          (runCalls = {} /\ ~boundaryFetched)

\* a run that geocoded one region's address and left the other's alone
C10_Witness ==
    /\ pc = "done"
    /\ runCalls # {}
    /\ \E i \in 1..Len(data.rows) :
          /\ data.rows[i].Region \in Regions \ selected_departments
          /\ data.rows[i].Address \notin runCalls

====
